---- MODULE Spec2Model ----
(***************************************************************************)
(* rascii: image to ASCII conversion (src/src/main.rs).                    *)
(*                                                                         *)
(* The module models RasciiColor::to_grayscale, the ramp lookup that       *)
(* Rascii::run performs inline, and Rascii::run itself as a state machine  *)
(* whose steps are the iterations of its two tile loops.                   *)
(*                                                                         *)
(* Three specifications:                                                   *)
(*   Spec      Rascii::run called (repeatedly) on one Rascii value         *)
(*   SpecGray  RasciiColor::to_grayscale applied to one color              *)
(*   SpecRamp  the ramp index of run applied to two lightness values       *)
(***************************************************************************)
EXTENDS Integers, Sequences, FiniteSets

(***************************************************************************)
(* Bounds of the model.                                                    *)
(***************************************************************************)
\* image widths are 1..MaxW, image heights 1..MaxH
MaxW == 6
MaxH == 6
\* requested grid sizes (dim.0, dim.1) are 0..MaxGrid
MaxGrid == 4
\* the pixels of an image repeat, in row-major order, with this period
PatLen == 2
\* run is called at most this many times on the same value
MaxRuns == 2
\* SpecGray draws channels from 0..DarkMax and a few bright values
DarkMax == 11

(***************************************************************************)
(* Constants of the program.                                               *)
(***************************************************************************)
GSCALE_10 == <<" ", ".", ":", "-", "=", "+", "*", "#", "%", "@">>

\* the fourth character is a backquote, which a TLA+ string cannot hold
GSCALE_70 ==
  <<" ", ".", "\"", "BACKQUOTE", "^", "\"", ",", ":", ";", "I", "l", "!", "i", "~",
    "+", "_", "-", "?", "]", "[", "}", "{", "1", ")", "(", "|", "\\", "/",
    "t", "f", "j", "r", "x", "n", "u", "v", "c", "z", "X", "Y", "U", "J",
    "C", "L", "Q", "0", "O", "Z", "m", "w", "q", "p", "d", "b", "k", "h",
    "a", "o", "*", "#", "M", "W", "&", "8", "%", "B", "@", "$">>

\* u8: the type of a channel, of a lightness and of depth
U8 == 0..255

\* the colors of the model's pixels: black, white and red
Palette == {<<0, 0, 0>>, <<255, 255, 255>>, <<255, 0, 0>>}

\* the values of depth the model runs with: one for each ramp
Depths == {10, 70}

(***************************************************************************)
(* RasciiColor: RGB(u8, u8, u8) | Grayscale(u8), as tagged tuples.         *)
(***************************************************************************)
RGB(r, g, b) == <<"RGB", r, g, b>>

Grayscale(l) == <<"Grayscale", l>>

(***************************************************************************)
(* f64 -> u8 cast (`as u8`): truncates toward zero and saturates at the    *)
(* ends of the range.  Applied here to the floor of the value.             *)
(***************************************************************************)
AsU8(x) == IF x < 0 THEN 0 ELSE IF x > 255 THEN 255 ELSE x

(***************************************************************************)
(* (c as f64).powf(GAMMA), GAMMA = 2.2, in fixed point with six decimals:  *)
(* Pow22[c + 1] = round(c^2.2 * 10^6).  Every color with a channel >= 11   *)
(* has 116 * y^(1/3) - 16 > 255 already (0.0722 * 11^2.2 = 14.1 and        *)
(* 116 * 14.1^(1/3) - 16 = 264), so larger channels are evaluated at 11:   *)
(* the cast saturates to the same 255.                                     *)
(***************************************************************************)
Pow22 ==
  <<0, 1000000, 4594793, 11211578, 21112127, 34493242, 51514887, 72312885,
    97005860, 125699491, 158489319, 195462706>>

PowGamma(c) == Pow22[(IF c > 11 THEN 11 ELSE c) + 1]

\* floor(a * w / 10^4) for a weight w < 10^4, without leaving 32 bits
Weighted(a, w) == (a \div 10000) * w + ((a % 10000) * w) \div 10000

\* y = 0.2126 * rlin + 0.7152 * glin + 0.0722 * blin, six decimals
Luminance(r, g, b) ==
  Weighted(PowGamma(r), 2126) + Weighted(PowGamma(g), 7152)
    + Weighted(PowGamma(b), 722)

\* floor(116^3 * y) for y in six decimals; 116^3 = 1560896 = 1560 * 1000 + 896
Times116Cubed(y6) ==
  (y6 \div 1000000) * 1560896 + ((y6 % 1000000) * 1560) \div 1000
    + ((y6 % 1000000) * 896) \div 1000000

\* floor of the cube root of k, known to lie in lo..hi: by bisection
RECURSIVE CbrtIn(_, _, _)
CbrtIn(k, lo, hi) ==
  IF lo = hi THEN lo
  ELSE LET mid == (lo + hi + 1) \div 2
       IN IF mid * mid * mid <= k THEN CbrtIn(k, mid, hi)
          ELSE CbrtIn(k, lo, mid - 1)

\* 116^3 * y < 116^3 * 196 < 700^3
ICbrt(k) == CbrtIn(k, 0, 700)

(***************************************************************************)
(* RasciiColor::to_grayscale.  For RGB: (116.0 * y.powf(1/3) - 16.0) as u8 *)
(* = AsU8(floor(116 * y^(1/3)) - 16), and floor(116 * y^(1/3)) is the cube *)
(* root of floor(116^3 * y).  The fixed-point value of 116^3 * y is within *)
(* 7 of the exact one, and no color with a result below 255 comes within   *)
(* 600 of a cube other than (0,0,0) and (1,1,1), which are exact.          *)
(***************************************************************************)
\* variant: the cast wraps modulo 256 instead of saturating
to_grayscale_wrapping(c) ==
  IF c[1] = "RGB"
    THEN (ICbrt(Times116Cubed(Luminance(c[2], c[3], c[4]))) - 16) % 256
    ELSE c[2]

to_grayscale(c) ==
  IF c[1] = "RGB"
    THEN AsU8(ICbrt(Times116Cubed(Luminance(c[2], c[3], c[4]))) - 16)
    ELSE c[2]

(***************************************************************************)
(* The ramp lookup of run (lines 219-227 and 235-243).                     *)
(* index = (x as f64 / 255.0) * 67.0 (depth > 10) or * 9.0, then           *)
(* `index as usize`.  For every u8 x the f64 product truncates to          *)
(* floor(x * 67 / 255), resp. floor(x * 9 / 255).                          *)
(***************************************************************************)
\* variant: the product is computed in u8 and wraps
ramp_index_u8_arith(x, d) ==
  IF d > 10 THEN ((x * 67) % 256) \div 255 ELSE ((x * 9) % 256) \div 255

\* variant: scaled by the length of the ramp instead of its last index
ramp_index_by_len(x, d) ==
  IF d > 10 THEN (x * Len(GSCALE_70)) \div 255 ELSE (x * Len(GSCALE_10)) \div 255

ramp_index(x, d) ==
  IF d > 10 THEN (x * 67) \div 255 ELSE (x * 9) \div 255

\* the ramp indexed: chars (GSCALE_70 collected) or GSCALE_10
ramp(d) == IF d > 10 THEN GSCALE_70 ELSE GSCALE_10

\* chars[index as usize] / GSCALE_10[index as usize] panics out of bounds
index_in_bounds(x, d) == ramp_index(x, d) < Len(ramp(d))

ascii_char(x, d) == ramp(d)[ramp_index(x, d) + 1]

(***************************************************************************)
(* State.  image, dim, color, depth, braille: the fields of Rascii.        *)
(* pc, tile_w, tile_h, ty, tx, row_tiles, output: the position and the     *)
(* locals of a call of run.  reads: the get_pixel calls of that call, one  *)
(* entry per tile.  returned: the grids the calls of run returned so far.  *)
(* call: the argument and result of the function SpecGray or SpecRamp      *)
(* applies.                                                                *)
(***************************************************************************)
VARIABLES image, dim, color, depth, braille,
          pc, tile_w, tile_h, ty, tx, row_tiles, output,
          reads, returned, call

fields == <<image, dim, color, depth, braille>>

locals == <<tile_w, tile_h, ty, tx, row_tiles, output>>

vars == <<image, dim, color, depth, braille,
          pc, tile_w, tile_h, ty, tx, row_tiles, output,
          reads, returned, call>>

(***************************************************************************)
(* RgbImage: width, height and the pixels, which repeat data in row-major  *)
(* order.                                                                  *)
(***************************************************************************)
Images ==
  [width : 1..MaxW, height : 1..MaxH, data : [1..PatLen -> Palette]]

\* RgbImage::get_pixel panics unless x < width and y < height
in_image(x, y) == x < image.width /\ y < image.height

get_pixel(x, y) ==
  image.data[((y * image.width + x) % Len(image.data)) + 1]

(***************************************************************************)
(* The per-tile loops of run: for px in 0..tile_w { for py in 0..tile_h {  *)
(* get_pixel(px + tx * tile_w, py + ty * tile_h) } }.                      *)
(***************************************************************************)
\* variant: the tile index is not scaled by the tile width
pixel_x_unscaled(px, t) == px + t

pixel_x(px, t) == px + (t * tile_w)

pixel_y(py, t) == py + (t * tile_h)

\* the coordinates of tile (t, u) in the order the loops visit them
tile_coords(t, u) ==
  IF tile_w = 0 \/ tile_h = 0
    THEN <<>>
    ELSE [k \in 1..(tile_w * tile_h) |->
            <<pixel_x((k - 1) \div tile_h, t), pixel_y((k - 1) % tile_h, u)>>]

\* the calls of get_pixel made: up to and including the first that panics
attempted(coords) ==
  LET bad == {k \in 1..Len(coords) : ~in_image(coords[k][1], coords[k][2])}
  IN IF bad = {} THEN coords
     ELSE SubSeq(coords, 1, CHOOSE k \in bad : \A j \in bad : k <= j)

\* lines 197-204: the color pushed for one pixel
pixel_sample(p) ==
  IF color THEN RGB(p[1], p[2], p[3])
  ELSE Grayscale(to_grayscale(RGB(p[1], p[2], p[3])))

tile_pixel_data_of(coords) ==
  [k \in 1..Len(coords) |-> pixel_sample(get_pixel(coords[k][1], coords[k][2]))]

(***************************************************************************)
(* The averages of run.  fold_rgb is                                       *)
(*   iter().fold(0usize, |sum, x| sum + match x { RGB(..) => c, _ => 0 })  *)
(* for channel i (2: r, 3: g, 4: b), fold_gray the same for Grayscale(x).  *)
(***************************************************************************)
RECURSIVE fold_rgb(_, _)
fold_rgb(data, i) ==
  IF data = <<>> THEN 0
  ELSE fold_rgb(SubSeq(data, 1, Len(data) - 1), i)
         + (IF data[Len(data)][1] = "RGB" THEN data[Len(data)][i] ELSE 0)

RECURSIVE fold_gray(_)
fold_gray(data) ==
  IF data = <<>> THEN 0
  ELSE fold_gray(SubSeq(data, 1, Len(data) - 1))
         + (IF data[Len(data)][1] = "Grayscale" THEN data[Len(data)][2] ELSE 0)

\* lines 214-218; data is not empty
\* variant: the means are rounded to nearest instead of truncated
color_avg_rounded(data) ==
  RGB((2 * fold_rgb(data, 2) + Len(data)) \div (2 * Len(data)),
      (2 * fold_rgb(data, 3) + Len(data)) \div (2 * Len(data)),
      (2 * fold_rgb(data, 4) + Len(data)) \div (2 * Len(data)))

color_avg(data) ==
  RGB(fold_rgb(data, 2) \div Len(data),
      fold_rgb(data, 3) \div Len(data),
      fold_rgb(data, 4) \div Len(data))

\* line 230; data is not empty
\* variant: the mean is rounded to nearest instead of truncated
gray_avg_rounded(data) ==
  Grayscale((2 * fold_gray(data) + Len(data)) \div (2 * Len(data)))

gray_avg(data) == Grayscale(fold_gray(data) \div Len(data))

\* the tile's color: avg
tile_avg(data) == IF color THEN color_avg(data) ELSE gray_avg(data)

\* the value the index is computed from: avg.to_grayscale() (lines 220, 225)
\* or the x of Grayscale(x) (lines 231-234)
tile_value(avg) ==
  IF color THEN to_grayscale(avg)
  ELSE IF avg[1] = "Grayscale" THEN avg[2] ELSE 0

(***************************************************************************)
(* The ranges of the tile loops: 1..self.dim.1 - 1 and 1..self.dim.0 - 1.  *)
(***************************************************************************)
\* variant: the loops start at the first tile
first_tile_zero == 1 - 1

first_tile == 1

rows_end == dim[2] - 1

cols_end == dim[1] - 1

\* line 176: let mut output = Vec::new()
\* variant: output outlives the call
new_output_stale == output

new_output == <<>>

(***************************************************************************)
(* Rascii::run.                                                            *)
(***************************************************************************)
\* lines 175-186: the tile size, which divides by dim, and the outer loop
\* entered
RunBegin ==
  /\ pc = "idle"
  /\ Len(returned) < MaxRuns
  /\ IF dim[1] = 0 \/ dim[2] = 0
       THEN /\ pc' = "panic_divide_by_zero"
            /\ UNCHANGED <<locals, reads>>
       ELSE /\ output' = new_output
            /\ tile_w' = image.width \div dim[1]
            /\ tile_h' = image.height \div dim[2]
            /\ ty' = first_tile
            /\ reads' = <<>>
            /\ pc' = "rows"
            /\ UNCHANGED <<tx, row_tiles>>
  /\ UNCHANGED <<fields, returned, call>>

\* lines 186-189: one more row of tiles
RowBegin ==
  /\ pc = "rows"
  /\ ty < rows_end
  /\ row_tiles' = <<>>
  /\ tx' = first_tile
  /\ pc' = "cols"
  /\ UNCHANGED <<fields, tile_w, tile_h, ty, output, reads, returned, call>>

\* lines 189-249: one tile sampled, averaged and mapped to a character
Tile ==
  /\ pc = "cols"
  /\ tx < cols_end
  /\ LET coords == tile_coords(tx, ty)
         tried == attempted(coords)
     IN /\ reads' = Append(reads, [tx |-> tx, ty |-> ty, at |-> tried])
        /\ IF \E k \in 1..Len(coords) : ~in_image(coords[k][1], coords[k][2])
             THEN /\ pc' = "panic_out_of_bounds"
                  /\ UNCHANGED <<tx, row_tiles>>
           ELSE IF Len(tile_pixel_data_of(coords)) = 0
             THEN /\ pc' = "panic_divide_by_zero"
                  /\ UNCHANGED <<tx, row_tiles>>
           ELSE LET avg == tile_avg(tile_pixel_data_of(coords))
                    value == tile_value(avg)
                IN IF ~index_in_bounds(value, depth)
                     THEN /\ pc' = "panic_out_of_bounds"
                          /\ UNCHANGED <<tx, row_tiles>>
                     ELSE /\ row_tiles' =
                               Append(row_tiles, <<ascii_char(value, depth), avg>>)
                          /\ tx' = tx + 1
                          /\ pc' = "cols"
  /\ UNCHANGED <<fields, tile_w, tile_h, ty, output, returned, call>>

\* lines 189, 251: the row is complete
RowEnd ==
  /\ pc = "cols"
  /\ ~(tx < cols_end)
  /\ output' = Append(output, row_tiles)
  /\ ty' = ty + 1
  /\ pc' = "rows"
  /\ UNCHANGED <<fields, tile_w, tile_h, tx, row_tiles, reads, returned, call>>

\* lines 186, 260: Ok(output)
RunReturn ==
  /\ pc = "rows"
  /\ ~(ty < rows_end)
  /\ returned' = Append(returned, output)
  /\ pc' = "idle"
  /\ UNCHANGED <<fields, locals, reads, call>>

\* call when no function is being applied
NoCall == [arg |-> <<>>, done |-> FALSE, ret |-> <<>>]

\* Rascii::from_opt builds the value; run has not been called
Init ==
  /\ image \in Images
  /\ dim \in (0..MaxGrid) \X (0..MaxGrid)
  /\ color \in BOOLEAN
  /\ depth \in Depths
  /\ braille = FALSE  \* run never reads it
  /\ pc = "idle"
  /\ tile_w = 0
  /\ tile_h = 0
  /\ ty = 0
  /\ tx = 0
  /\ row_tiles = <<>>
  /\ output = <<>>
  /\ reads = <<>>
  /\ returned = <<>>
  /\ call = NoCall

Next == RunBegin \/ RowBegin \/ Tile \/ RowEnd \/ RunReturn

Spec == Init /\ [][Next]_vars

(***************************************************************************)
(* SpecGray: RasciiColor::to_grayscale applied to one color.               *)
(***************************************************************************)
Channels == (0..DarkMax) \cup {127, 128, 254, 255}

Colors ==
  {RGB(r, g, b) : r \in Channels, g \in Channels, b \in Channels}
    \cup {Grayscale(l) : l \in U8}

\* the variables of run, when run is not what is modelled
NoRun ==
  /\ image = [width |-> 1, height |-> 1, data |-> [k \in 1..PatLen |-> <<0, 0, 0>>]]
  /\ dim = <<1, 1>>
  /\ color = FALSE
  /\ depth = 70
  /\ braille = FALSE
  /\ pc = "idle"
  /\ tile_w = 0
  /\ tile_h = 0
  /\ ty = 0
  /\ tx = 0
  /\ row_tiles = <<>>
  /\ output = <<>>
  /\ reads = <<>>
  /\ returned = <<>>

InitGray ==
  /\ NoRun
  /\ call \in [arg : Colors, done : {FALSE}, ret : {0}]

ToGrayscale ==
  /\ ~call.done
  /\ call' = [call EXCEPT !.done = TRUE, !.ret = to_grayscale(call.arg)]
  /\ UNCHANGED <<fields, pc, locals, reads, returned>>

SpecGray == InitGray /\ [][ToGrayscale]_vars

(***************************************************************************)
(* SpecRamp: the ramp index of run for two lightness values v1 <= v2 at    *)
(* one depth.                                                              *)
(***************************************************************************)
RampDepths == {0, 10, 11, 70, 255}

InitRamp ==
  /\ NoRun
  /\ call \in [arg : {a \in U8 \X U8 \X RampDepths : a[1] <= a[2]},
               done : {FALSE}, ret : {<<0, 0>>}]

RampIndex ==
  /\ ~call.done
  /\ call' = [call EXCEPT !.done = TRUE,
                          !.ret = <<ramp_index(call.arg[1], call.arg[3]),
                                    ramp_index(call.arg[2], call.arg[3])>>]
  /\ UNCHANGED <<fields, pc, locals, reads, returned>>

SpecRamp == InitRamp /\ [][RampIndex]_vars

(***************************************************************************)
(* Properties of to_grayscale (SpecGray).                                  *)
(***************************************************************************)
\* C3: for every RGB triple with channels in 0..255 to_grayscale returns a
\* value in 0..255, 0 for (0,0,0) and 255 for (255,255,255); a Grayscale
\* value is returned unchanged.
C3_LightnessInRange ==
  call.done =>
    /\ call.ret \in U8
    /\ call.arg = RGB(0, 0, 0) => call.ret = 0
    /\ call.arg = RGB(255, 255, 255) => call.ret = 255
    /\ call.arg[1] = "Grayscale" => call.ret = call.arg[2]

\* the lightness of white has been computed: the cast saturated it to 255
C3_Witness ==
  /\ call.done
  /\ call.arg = RGB(255, 255, 255)
  /\ call.ret = 255

(***************************************************************************)
(* Properties of the ramp index (SpecRamp).                                *)
(***************************************************************************)
\* C4, as claimed: for every v in 0..255 the index lies in [0,9] when
\* depth <= 10 and in [0,66] when depth > 10.
C4_IndexAsClaimed ==
  call.done =>
    \A i \in 1..2 :
      IF call.arg[3] <= 10 THEN call.ret[i] \in 0..9 ELSE call.ret[i] \in 0..66

\* C4, amended: for every v in 0..255 the index lies in [0,9] when
\* depth <= 10 and in [0,67] when depth > 10, which is within the ramp
\* indexed (10 and 68 characters).
C4_IndexInRamp ==
  call.done =>
    \A i \in 1..2 :
      /\ IF call.arg[3] <= 10 THEN call.ret[i] \in 0..9 ELSE call.ret[i] \in 0..67
      /\ call.ret[i] < Len(ramp(call.arg[3]))

\* lightness 255 at depth > 10 has been mapped: to index 67
C4_Witness ==
  /\ call.done
  /\ call.arg[3] > 10
  /\ call.arg[2] = 255
  /\ call.ret[2] = 67

\* C7: at a fixed depth, v1 <= v2 implies that the index chosen for v1 is
\* at most the index chosen for v2.
C7_Monotone ==
  call.done => call.ret[1] <= call.ret[2]

\* two different values have been mapped to two different indices
C7_Witness ==
  /\ call.done
  /\ call.arg[1] < call.arg[2]
  /\ call.ret[1] < call.ret[2]

(***************************************************************************)
(* Properties of run (Spec).                                               *)
(***************************************************************************)
Panics == {"panic_divide_by_zero", "panic_out_of_bounds"}

\* 1 <= cols <= W and 1 <= rows <= H
GridFits ==
  /\ 1 <= dim[1] /\ dim[1] <= image.width
  /\ 1 <= dim[2] /\ dim[2] <= image.height

\* the grid is finer than the buffer
GridFiner ==
  /\ 1 <= dim[1] /\ 1 <= dim[2]
  /\ (dim[1] > image.width \/ dim[2] > image.height)

RECURSIVE Flatten(_)
Flatten(g) == IF g = <<>> THEN <<>> ELSE Head(g) \o Flatten(Tail(g))

\* the cells the current (or last) call of run has produced, in order
Produced == Flatten(output) \o (IF pc = "cols" THEN row_tiles ELSE <<>>)

\* channel i of pixel p; i = 0: its lightness
Chan(p, i) == IF i = 0 THEN to_grayscale(RGB(p[1], p[2], p[3])) ELSE p[i]

\* the sum of channel i over the pixels at the coordinates at (a sequence)
RECURSIVE SumAt(_, _)
SumAt(at, i) ==
  IF at = <<>> THEN 0
  ELSE Chan(get_pixel(Head(at)[1], Head(at)[2]), i) + SumAt(Tail(at), i)

\* the sum of channel i over the pixels at the coordinates S (a set)
RECURSIVE SumIn(_, _)
SumIn(S, i) ==
  IF S = {} THEN 0
  ELSE LET c == CHOOSE c \in S : TRUE
       IN Chan(get_pixel(c[1], c[2]), i) + SumIn(S \ {c}, i)

\* how many of the pixels at the coordinates at have color p
CountAt(at, p) ==
  Cardinality({k \in 1..Len(at) : get_pixel(at[k][1], at[k][2]) = p})

\* tile (t, u): x in [t * tw, (t + 1) * tw), y in [u * th, (u + 1) * th),
\* with tw = floor(W / cols) and th = floor(H / rows)
Region(t, u) ==
  LET tw == image.width \div dim[1]
      th == image.height \div dim[2]
  IN (t * tw .. (t + 1) * tw - 1) \X (u * th .. (u + 1) * th - 1)

\* the cell of a tile with pixels at S, as sections 4.3 to 4.5 define it
CellOf(S) ==
  LET n == Cardinality(S)
      avg == IF color
               THEN RGB(SumIn(S, 1) \div n, SumIn(S, 2) \div n, SumIn(S, 3) \div n)
               ELSE Grayscale(SumIn(S, 0) \div n)
      value == IF color THEN to_grayscale(avg) ELSE avg[2]
  IN <<ascii_char(value, depth), avg>>

\* C1: for 1 <= cols <= W and 1 <= rows <= H run completes without error
\* and returns rows rows of cols cells each.
C1_FullGrid ==
  GridFits =>
    /\ pc \notin Panics
    /\ \A r \in 1..Len(returned) :
         /\ Len(returned[r]) = dim[2]
         /\ \A i \in 1..Len(returned[r]) : Len(returned[r][i]) = dim[1]

\* C2: when cols > W or rows > H the conversion ends in the InvalidGridSpec
\* error: run returns no grid and reaches no division by zero.
C2_FinerGridRejected ==
  GridFiner =>
    /\ returned = <<>>
    /\ pc # "panic_divide_by_zero"

\* C5: in grayscale mode every cell has color Grayscale(m), m the floor of
\* the mean of the lightness of the pixels of its tile, and the ramp
\* character of m; two black and two white pixels at depth <= 10 give
\* m = 127 and '='.
C5_GrayscaleCell ==
  (~color /\ pc \notin Panics) =>
    /\ Len(reads) = Len(Produced)
    /\ \A k \in 1..Len(Produced) :
         LET at == reads[k].at
             m == SumAt(at, 0) \div Len(at)
         IN /\ Len(at) > 0
            /\ Produced[k] = <<ascii_char(m, depth), Grayscale(m)>>
            /\ (/\ depth <= 10
                /\ Len(at) = 4
                /\ CountAt(at, <<0, 0, 0>>) = 2
                /\ CountAt(at, <<255, 255, 255>>) = 2)
               => Produced[k] = <<"=", Grayscale(127)>>

\* a returned grid holds the cell of a tile of two black and two white
\* pixels at depth 10
C5_Witness ==
  /\ ~color
  /\ depth = 10
  /\ returned # <<>>
  /\ \E k \in 1..Len(reads) :
       /\ Len(reads[k].at) = 4
       /\ CountAt(reads[k].at, <<0, 0, 0>>) = 2
       /\ CountAt(reads[k].at, <<255, 255, 255>>) = 2
       /\ Flatten(returned[1])[k] = <<"=", Grayscale(127)>>

\* C6: in color mode every cell has color RGB(floor(sumR/n), floor(sumG/n),
\* floor(sumB/n)) over the n pixels of its tile and the ramp character of
\* the lightness of that triple; a tile uniformly (255,0,0) has color
\* (255,0,0) and the character of lightness(255,0,0).
C6_ColorCell ==
  (color /\ pc \notin Panics) =>
    /\ Len(reads) = Len(Produced)
    /\ \A k \in 1..Len(Produced) :
         LET at == reads[k].at
             n == Len(at)
             avg == RGB(SumAt(at, 1) \div n, SumAt(at, 2) \div n, SumAt(at, 3) \div n)
         IN /\ n > 0
            /\ Produced[k] = <<ascii_char(to_grayscale(avg), depth), avg>>
            /\ CountAt(at, <<255, 0, 0>>) = n =>
                 /\ avg = RGB(255, 0, 0)
                 /\ Produced[k][1] = ascii_char(to_grayscale(RGB(255, 0, 0)), depth)

\* a returned grid holds the cell of a tile for which the lightness of the
\* averaged color differs from the mean of the lightness of its pixels,
\* and the character is the one of the former
C6_Witness ==
  /\ color
  /\ returned # <<>>
  /\ \E k \in 1..Len(reads) :
       LET at == reads[k].at
           n == Len(at)
           avg == RGB(SumAt(at, 1) \div n, SumAt(at, 2) \div n, SumAt(at, 3) \div n)
       IN /\ n > 1
          /\ ramp_index(to_grayscale(avg), depth) # ramp_index(SumAt(at, 0) \div n, depth)
          /\ Flatten(returned[1])[k][1] = ascii_char(to_grayscale(avg), depth)

\* C8: two calls of run on the same value return the same grid, and run
\* changes none of image, dim, color, depth, braille.
C8_Idempotent ==
  /\ [](\A r \in 1..Len(returned) : returned[r] = returned[1])
  /\ [][fields' = fields]_vars

\* run has returned twice, a grid that holds cells
C8_Witness ==
  /\ Len(returned) = 2
  /\ returned[2] # <<>>
  /\ returned[2][1] # <<>>

C10_ReadsInBounds ==
  GridFits =>
    /\ pc # "panic_out_of_bounds"
    /\ \A k \in 1..Len(reads) :
         LET at == reads[k].at
             S == {at[i] : i \in 1..Len(at)}
         IN /\ \A c \in S : c[1] < image.width /\ c[2] < image.height
            /\ S = Region(reads[k].tx, reads[k].ty)
            /\ \A l \in 1..Len(reads) :
                 l # k => S \cap {reads[l].at[i] : i \in 1..Len(reads[l].at)} = {}

\* two tiles of more than one pixel each have been read
C10_Witness ==
  /\ GridFits
  /\ Len(reads) >= 2
  /\ Len(reads[1].at) >= 2
  /\ Len(reads[2].at) >= 2

====
